---------------------------- MODULE Spec2Model ----------------------------
(***************************************************************************)
(* Planetary Defense hazard-scoring pipeline.                              *)
(*                                                                         *)
(*   backend/main.py        the FastAPI scoring service (module `main`)    *)
(*   backend/model_utils.py ModelManager, the second scoring path          *)
(*   scripts/train.py       fetch -> engineer_features -> fit -> dump      *)
(*                                                                         *)
(* Three specifications share the variables:                               *)
(*   Spec      one service process (main.py or model_utils.py) from its    *)
(*             import to an unbounded run of requests, with the trainer    *)
(*             rewriting the artifact on disk underneath it;               *)
(*   SpecTrain runs of train_and_evaluate over the fetched data set;       *)
(*   SpecFeat  the derived-feature arithmetic on pairs of observations.    *)
(*                                                                         *)
(* Numbers.  A number is a rational [num, den].  Distances are counted in  *)
(* multiples of the guard 1e-5 km, so the guard is one unit (Eps).         *)
(* Probabilities are counted in units of 1/ProbScale, one decimal digit    *)
(* finer than the "{:.2%}" format keeps.                                   *)
(***************************************************************************)
EXTENDS Integers, Sequences, FiniteSets, TLC

VARIABLES
    proc,       \* which service module this process runs: "main" | "manager"
    pc,         \* "import" (module top level still running) | "serving"
    artifact,   \* models/neo_classifier.joblib on disk
    model,      \* main.model / neo_model_manager.model
    boot,       \* the artifact as the startup load found it
    last,       \* the request in flight and everything its handler did
    run,        \* the last run of train_and_evaluate
    obsA, obsB, \* two raw observations
    featA, featB \* their derived features, once computed

vars == <<proc, pc, artifact, model, boot, last, run, obsA, obsB, featA, featB>>

---------------------------------------------------------------------------
(* Bounds *)

MaxVal == 1         \* raw request values range over 0..MaxVal
MaxVersion == 1     \* artifacts the trainer writes while the service runs
MaxDumps == 2       \* artifact versions a sequence of training runs may reach
MaxObs == 2         \* raw observation fields range over 0..MaxObs (SpecFeat)
MaxNeg == 3         \* non-hazardous records fetched
MaxPos == 3         \* hazardous records fetched

---------------------------------------------------------------------------
(* Numbers *)

Num(n) == [kind |-> "num", num |-> n, den |-> 1]
NonNumeric == [kind |-> "str", num |-> 0, den |-> 1]
IsNumber(v) == v.kind = "num"

\* x / y, x ** 2, x * y, x + y on rationals (pandas float columns)
Div(x, y) == [kind |-> "num", num |-> x.num * y.den, den |-> x.den * y.num]
Sq(x) == [kind |-> "num", num |-> x.num * x.num, den |-> x.den * x.den]
Mul(x, y) == [kind |-> "num", num |-> x.num * y.num, den |-> x.den * y.den]
Add(x, y) == [kind |-> "num", num |-> x.num * y.den + y.num * x.den, den |-> x.den * y.den]
Less(x, y) == x.num * y.den < y.num * x.den
Leq(x, y) == x.num * y.den <= y.num * x.den

Eps == 1            \* the 1e-5 guard, in distance units of 1e-5 km

---------------------------------------------------------------------------
(* Data frames of one row: the column names in order, and the row *)

Range(s) == {s[i] : i \in 1..Len(s)}
Frame(cols, row) == [columns |-> cols, row |-> [c \in Range(cols) |-> row[c]]]
NoFrame == [columns |-> <<>>, row |-> [c \in {} |-> Num(0)]]

\* df[name] = value: a new column goes last, an old one keeps its place
SetColumn(df, name, value) ==
    [columns |-> IF name \in Range(df.columns) THEN df.columns
                 ELSE Append(df.columns, name),
     row |-> [c \in Range(df.columns) \cup {name} |->
                 IF c = name THEN value ELSE df.row[c]]]

\* df.drop(name, axis=1), for a column the frame has
Drop(df, name) ==
    LET cols == SelectSeq(df.columns, LAMBDA c : c # name)
    IN  [columns |-> cols, row |-> [c \in Range(cols) |-> df.row[c]]]


---------------------------------------------------------------------------
(* Feature derivation: the training copy and the serving copy *)

FieldOrder == <<"est_diameter_min", "relative_velocity", "miss_distance", "absolute_magnitude">>
FetchOrder == FieldOrder \o <<"is_hazardous">>
required_cols == {"est_diameter_min", "relative_velocity", "miss_distance"}

\* engineer_features with the operands of the first ratio exchanged
engineer_features_swapped(df) ==
    IF ~(required_cols \subseteq Range(df.columns)) THEN df
    ELSE LET d1 == SetColumn(df, "size_dist_ratio",
                     Div(df.row["miss_distance"], Add(df.row["est_diameter_min"], Num(Eps))))
             d2 == SetColumn(d1, "kinetic_proxy",
                     Mul(Sq(d1.row["relative_velocity"]), d1.row["est_diameter_min"]))
         IN  SetColumn(d2, "velocity_dist_ratio",
                     Div(d2.row["relative_velocity"], Add(d2.row["miss_distance"], Num(Eps))))

\* scripts/train.py engineer_features: the frame itself when a required
\* column is missing (a message is printed), else the three columns added
engineer_features(df) ==
    IF ~(required_cols \subseteq Range(df.columns)) THEN df
    ELSE LET d1 == SetColumn(df, "size_dist_ratio",
                     Div(df.row["est_diameter_min"], Add(df.row["miss_distance"], Num(Eps))))
             d2 == SetColumn(d1, "kinetic_proxy",
                     Mul(Sq(d1.row["relative_velocity"]), d1.row["est_diameter_min"]))
         IN  SetColumn(d2, "velocity_dist_ratio",
                     Div(d2.row["relative_velocity"], Add(d2.row["miss_distance"], Num(Eps))))

\* backend/main.py predict, "Engineering logic": the same three assignments
\* written out a second time, on the frame built from data.dict()
ServeFeatures(input_df) ==
    LET d1 == SetColumn(input_df, "size_dist_ratio",
                     Div(input_df.row["est_diameter_min"], Add(input_df.row["miss_distance"], Num(Eps))))
        d2 == SetColumn(d1, "kinetic_proxy",
                     Mul(Sq(d1.row["relative_velocity"]), d1.row["est_diameter_min"]))
    IN  SetColumn(d2, "velocity_dist_ratio",
                     Div(d2.row["relative_velocity"], Add(d2.row["miss_distance"], Num(Eps))))

\* The row X that train_and_evaluate builds for one fetched record:
\* engineer_features(raw_df), then drop('is_hazardous', axis=1)
TrainX(rec) == Drop(engineer_features(Frame(FetchOrder, rec)), "is_hazardous")

\* A fetched record with the four raw values of `row` and some label
LabelledRow(row) ==
    [c \in Range(FetchOrder) |-> IF c = "is_hazardous" THEN Num(0) ELSE row[c]]

---------------------------------------------------------------------------
(* The fitted classifier, as the service sees it *)

RECURSIVE Pow10(_)
Pow10(k) == IF k = 0 THEN 1 ELSE 10 * Pow10(k - 1)

PctDecimals == 2                            \* "{probability:.2%}"
PctScale == Pow10(2 + PctDecimals)          \* "50.00%" is 5000 of 10000
ProbScale == 10 * PctScale                  \* probabilities in 1/100000
Threshold == ProbScale \div 2               \* the classifier's 0.5

\* Probabilities the classifier is let to return: the ends of the range,
\* and both sides of the threshold within and beyond half a display digit.
\* Left out: exactly 0.5, where the label is the classifier's tie rule, and
\* decimal ties of the display format, which go by the float's binary value.
ProbSamples == {0, 4, 49994, 49996, 50004, 50006, 99996, ProbScale}

\* XGBClassifier.predict on a binary problem: class 1 when the positive-class
\* probability exceeds 0.5
Classify(p) == p > Threshold

\* What one scoring call gets from the opaque model: predict may raise;
\* if not, predict_proba may raise; if not, [0][1] is p.
Oracles ==
    {[fails |-> "predict", p |-> 0], [fails |-> "predict_proba", p |-> 0]}
    \cup [fails : {"none"}, p : ProbSamples]
NoOracle == [fails |-> "unused", p |-> 0]

\* f"{p:.2%}": p*100 rounded to PctDecimals decimals, as the count of 0.01%.
\* A decimal tie goes by the binary value of the float, either way.
FormatPct(p) ==
    LET q == ProbScale \div PctScale
        lo == p \div q
        rem == p % q
    IN  IF 2 * rem < q THEN {lo}
        ELSE IF 2 * rem > q THEN {lo + 1}
        ELSE {lo, lo + 1}

\* The percentage string read back as a normalized value, in 1/ProbScale
ReadBackPct(h) == h * (ProbScale \div PctScale)

---------------------------------------------------------------------------
(* Requests and what a call leaves behind *)

Values == {Num(n) : n \in 0..MaxVal} \cup {NonNumeric}
Numbers == {Num(n) : n \in 0..MaxVal}

Reverse(s) == [i \in 1..Len(s) |-> s[Len(s) + 1 - i]]

\* JSON objects / dicts over the four field names: every subset of the
\* fields in declaration order with numeric or non-numeric values, and the
\* complete numeric ones in reversed key order as well
Bodies ==
    UNION {[columns : {SelectSeq(FieldOrder, LAMBDA c : c \in S)}, row : [S -> Values]] :
              S \in SUBSET Range(FieldOrder)}
    \cup [columns : {Reverse(FieldOrder)}, row : [Range(FieldOrder) -> Numbers]]

EmptyBody == NoFrame

\* The four fields, all numbers, in any key order
IsRawObservation(body) ==
    /\ Range(body.columns) = Range(FieldOrder)
    /\ \A f \in Range(FieldOrder) : IsNumber(body.row[f])

\* Feature dicts a caller of predict_hazard may have derived itself
FeatureDicts ==
    {ServeFeatures(Frame(FieldOrder, b.row)) : b \in {x \in Bodies : IsRawObservation(x)}}

NoResp == [kind |-> "none", is_hazardous |-> FALSE, value |-> 0, model_loaded |-> FALSE]

Call(path, body, outcome, derived, predictCalled, probaCalled, fed, o, resp) ==
    [path |-> path, body |-> body, outcome |-> outcome, derived |-> derived,
     predictCalled |-> predictCalled, probaCalled |-> probaCalled,
     fed |-> fed, o |-> o, resp |-> resp]

NoCall == Call("none", EmptyBody, "none", FALSE, FALSE, FALSE, NoFrame, NoOracle, NoResp)

---------------------------------------------------------------------------
(* backend/main.py *)

NoModel == [kind |-> "none", ver |-> 0]
Model(v) == [kind |-> "model", ver |-> v]
Absent == [kind |-> "absent", ver |-> 0]
Corrupt == [kind |-> "corrupt", ver |-> 0]
Pending == [kind |-> "pending", ver |-> 0]

\* The load without its try/except: a corrupt artifact ends the import
MainLoadNoTry(a) ==
    IF a.kind = "absent" THEN [model |-> NoModel, pc |-> "serving"]
    ELSE IF a.kind = "model" THEN [model |-> Model(a.ver), pc |-> "serving"]
    ELSE [model |-> NoModel, pc |-> "crashed"]

\* Module top level, "# Load Model": model = None; joblib.load under
\* os.path.exists and try/except Exception
MainLoad(a) ==
    IF a.kind = "absent" THEN [model |-> NoModel, pc |-> "serving"]
    ELSE IF a.kind = "model" THEN [model |-> Model(a.ver), pc |-> "serving"]
    ELSE [model |-> NoModel, pc |-> "serving"]

\* class AsteroidRequest(BaseModel): four float fields, none with a default
AsteroidRequestValid(body) ==
    \A f \in Range(FieldOrder) : f \in Range(body.columns) /\ IsNumber(body.row[f])

\* data.dict(): the fields in declaration order
DataDict(body) == Frame(FieldOrder, body.row)

\* predict without its "if model is None" guard: None.predict raises
\* inside the try and leaves as a 500
predict_unguarded(m, body, o, h) ==
    LET input_df == ServeFeatures(DataDict(body))
    IN  IF m = NoModel
        THEN Call("predict", body, "500", TRUE, FALSE, FALSE, NoFrame, NoOracle, NoResp)
        ELSE IF o.fails = "predict"
        THEN Call("predict", body, "500", TRUE, TRUE, FALSE, input_df, o, NoResp)
        ELSE IF o.fails = "predict_proba"
        THEN Call("predict", body, "500", TRUE, TRUE, TRUE, input_df, o, NoResp)
        ELSE Call("predict", body, "200", TRUE, TRUE, TRUE, input_df, o,
                  [kind |-> "pct", is_hazardous |-> Classify(o.p), value |-> h,
                   model_loaded |-> FALSE])

\* predict with an except branch that answers "not hazardous, 0.00%"
predict_defaulting(m, body, o, h) ==
    IF m = NoModel
    THEN Call("predict", body, "503", FALSE, FALSE, FALSE, NoFrame, NoOracle, NoResp)
    ELSE LET input_df == ServeFeatures(DataDict(body))
             default == [kind |-> "pct", is_hazardous |-> FALSE, value |-> 0,
                         model_loaded |-> FALSE]
         IN  IF o.fails = "predict"
             THEN Call("predict", body, "200", TRUE, TRUE, FALSE, input_df, o, default)
             ELSE IF o.fails = "predict_proba"
             THEN Call("predict", body, "200", TRUE, TRUE, TRUE, input_df, o, default)
             ELSE Call("predict", body, "200", TRUE, TRUE, TRUE, input_df, o,
                       [kind |-> "pct", is_hazardous |-> Classify(o.p), value |-> h,
                        model_loaded |-> FALSE])

\* def predict(data): the handler body, for a request that validated
predict(m, body, o, h) ==
    IF m = NoModel
    THEN Call("predict", body, "503", FALSE, FALSE, FALSE, NoFrame, NoOracle, NoResp)
    ELSE LET input_df == ServeFeatures(DataDict(body))
         IN  IF o.fails = "predict"
             THEN Call("predict", body, "500", TRUE, TRUE, FALSE, input_df, o, NoResp)
             ELSE IF o.fails = "predict_proba"
             THEN Call("predict", body, "500", TRUE, TRUE, TRUE, input_df, o, NoResp)
             ELSE Call("predict", body, "200", TRUE, TRUE, TRUE, input_df, o,
                       [kind |-> "pct", is_hazardous |-> Classify(o.p), value |-> h,
                        model_loaded |-> FALSE])

\* @app.post("/predict") with data: AsteroidRequest: the body is validated
\* into the request model before the handler is entered
post_predict(m, body, o, h) ==
    IF ~AsteroidRequestValid(body)
    THEN Call("predict", body, "422", FALSE, FALSE, FALSE, NoFrame, NoOracle, NoResp)
    ELSE predict(m, body, o, h)

\* def health()
health(m) ==
    Call("health", EmptyBody, "200", FALSE, FALSE, FALSE, NoFrame, NoOracle,
         [kind |-> "health", is_hazardous |-> FALSE, value |-> 0, model_loaded |-> m # NoModel])

\* def root()
root ==
    Call("root", EmptyBody, "200", FALSE, FALSE, FALSE, NoFrame, NoOracle,
         [kind |-> "message", is_hazardous |-> FALSE, value |-> 0, model_loaded |-> FALSE])

---------------------------------------------------------------------------
(* backend/model_utils.py *)

\* ModelManager._load_model
_load_model(a) ==
    IF a.kind = "absent" THEN [model |-> NoModel, pc |-> "serving"]
    ELSE IF a.kind = "model" THEN [model |-> Model(a.ver), pc |-> "serving"]
    ELSE [model |-> NoModel, pc |-> "serving"]

\* pd.DataFrame([input_features]): the dict's keys, in its order, as columns
DataFrameOf(d) == [columns |-> d.columns, row |-> d.row]

\* ModelManager.predict_hazard
predict_hazard(m, input_features, o) ==
    IF m = NoModel
    THEN Call("predict_hazard", input_features, "model_unavailable",
              FALSE, FALSE, FALSE, NoFrame, NoOracle, NoResp)
    ELSE LET df == DataFrameOf(input_features)
         IN  IF o.fails = "predict"
             THEN Call("predict_hazard", input_features, "raised", FALSE, TRUE, FALSE, df, o, NoResp)
             ELSE IF o.fails = "predict_proba"
             THEN Call("predict_hazard", input_features, "raised", FALSE, TRUE, TRUE, df, o, NoResp)
             ELSE Call("predict_hazard", input_features, "returned", FALSE, TRUE, TRUE, df, o,
                       [kind |-> "float", is_hazardous |-> Classify(o.p), value |-> o.p,
                        model_loaded |-> FALSE])

ManagerInputs == Bodies \cup FeatureDicts

---------------------------------------------------------------------------
(* scripts/train.py: one run of train_and_evaluate *)

\* What fetch_data hands over: the columns of pd.DataFrame(all_neos) and the
\* number of rows labelled 0 and 1.  fetch_data is the external catalog
\* collaborator; its records may come with any subset of the five keys
\* (engineer_features guards against exactly that), or there may be none.
Datasets ==
    [columns : {SelectSeq(FetchOrder, LAMBDA c : c \in S) : S \in SUBSET Range(FetchOrder)},
     neg : 0..MaxNeg, pos : 0..MaxPos]

FullSchema(d) == Range(d.columns) = Range(FetchOrder)
SchemaMismatch(d) ==
    /\ d.neg + d.pos > 0 /\ Len(d.columns) > 0
    /\ ~(required_cols \subseteq Range(d.columns))

\* raw_df.empty: no rows or no columns
IsEmpty(d) == d.neg + d.pos = 0 \/ Len(d.columns) = 0

\* One row standing for the rows of the data set: the feature values do not
\* steer the run
SampleRow(cols) == [c \in Range(cols) |-> Num(1)]

\* What the fitting and the evaluation do on data they accept
FitOracles == {"ok", "fit_raises", "eval_raises"}

Classes(neg, pos) == (IF neg > 0 THEN 1 ELSE 0) + (IF pos > 0 THEN 1 ELSE 0)

\* train_test_split(X, y, test_size=0.2, stratify=y, random_state=42):
\* n_test = ceil(0.2 n); raises on an empty train set, on a class with a
\* single member, and on a train or test set smaller than the class count
SplitRaises(neg, pos) ==
    LET n == neg + pos
        n_test == (n + 4) \div 5
        n_train == n - n_test
    IN  \/ n_train = 0
        \/ neg = 1 \/ pos = 1
        \/ n_train < Classes(neg, pos)
        \/ n_test < Classes(neg, pos)

\* The same grid search over a pipeline that lost its SMOTE step: nothing
\* left that insists on two classes
GridSearchFitNoSmote(X, neg, pos, o) ==
    IF Len(X.columns) = 0 \/ o = "fit_raises" THEN "raises" ELSE "ok"

\* Pipeline([smote, xgb]) under GridSearchCV(...).fit(X_train, y_train):
\* SMOTE refuses a target with a single class, in every fold and in the
\* refit; no feature column is refused too; otherwise the libraries decide
GridSearchFit(X, neg, pos, o) ==
    IF Len(X.columns) = 0 \/ Classes(neg, pos) < 2 \/ o = "fit_raises"
    THEN "raises" ELSE "ok"

Run(raw_df, o, before, outcome, fitCalled, fitted, after) ==
    [done |-> TRUE, raw_df |-> raw_df, o |-> o, before |-> before, outcome |-> outcome,
     fitCalled |-> fitCalled, fitted |-> fitted, after |-> after]

NoRun ==
    [done |-> FALSE, raw_df |-> [columns |-> <<>>, neg |-> 0, pos |-> 0], o |-> "ok",
     before |-> Absent, outcome |-> "none", fitCalled |-> FALSE, fitted |-> FALSE,
     after |-> Absent]

\* joblib.dump(best_model, 'models/neo_classifier.joblib')
Dumped(art) == [kind |-> "model", ver |-> art.ver + 1]

\* def train_and_evaluate(), on what fetch_data returned, with the artifact
\* `art` on disk when it starts
train_and_evaluate(raw_df, o, art) ==
    IF IsEmpty(raw_df)
    THEN Run(raw_df, o, art, "no_data", FALSE, FALSE, art)
    ELSE LET df == engineer_features([columns |-> raw_df.columns,
                                      row |-> SampleRow(raw_df.columns)])
         IN  IF "is_hazardous" \notin Range(df.columns)
             THEN Run(raw_df, o, art, "raised", FALSE, FALSE, art)      \* KeyError in drop
             ELSE LET X == Drop(df, "is_hazardous")
                  IN  IF SplitRaises(raw_df.neg, raw_df.pos)
                      THEN Run(raw_df, o, art, "raised", FALSE, FALSE, art)
                      ELSE IF GridSearchFit(X, raw_df.neg, raw_df.pos, o) = "raises"
                      THEN Run(raw_df, o, art, "raised", TRUE, FALSE, art)
                      ELSE IF o = "eval_raises"
                      THEN Run(raw_df, o, art, "raised", TRUE, TRUE, art)
                      ELSE Run(raw_df, o, art, "saved", TRUE, TRUE, Dumped(art))

Train(raw_df, o) ==
    /\ run = NoRun /\ artifact.ver < MaxDumps
    /\ run' = train_and_evaluate(raw_df, o, artifact)
    /\ artifact' = run'.after
    /\ UNCHANGED <<proc, pc, model, boot, last, obsA, obsB, featA, featB>>

\* The script's process ends
Exit ==
    /\ run # NoRun
    /\ run' = NoRun
    /\ UNCHANGED <<proc, pc, artifact, model, boot, last, obsA, obsB, featA, featB>>

InitTrain ==
    /\ proc = "trainer" /\ pc = "script"
    /\ artifact \in {Absent, [kind |-> "model", ver |-> 1]}
    /\ model = NoModel /\ boot = Pending /\ last = NoCall
    /\ run = NoRun
    /\ obsA = NoFrame /\ obsB = NoFrame /\ featA = NoFrame /\ featB = NoFrame

NextTrain ==
    \/ \E raw_df \in Datasets, o \in FitOracles : Train(raw_df, o)
    \/ Exit

SpecTrain == InitTrain /\ [][NextTrain]_vars

---------------------------------------------------------------------------
(* The derived features on two observations that differ in one field *)

Observations == [columns : {FieldOrder}, row : [Range(FieldOrder) -> {Num(n) : n \in 0..MaxObs}]]

OnlyDiffers(f) == \A g \in Range(FieldOrder) \ {f} : obsA.row[g] = obsB.row[g]

\* engineer_features, as training applies it
TrainDerive ==
    /\ featA = NoFrame
    /\ featA' = engineer_features(obsA) /\ featB' = engineer_features(obsB)
    /\ UNCHANGED <<proc, pc, artifact, model, boot, last, run, obsA, obsB>>

\* the engineering logic of predict, as serving applies it
ServeDerive ==
    /\ featA = NoFrame
    /\ featA' = ServeFeatures(obsA) /\ featB' = ServeFeatures(obsB)
    /\ UNCHANGED <<proc, pc, artifact, model, boot, last, run, obsA, obsB>>

InitFeat ==
    /\ proc = "features" /\ pc = "script"
    /\ artifact = Absent /\ model = NoModel /\ boot = Pending /\ last = NoCall
    /\ run = NoRun
    /\ obsA \in Observations /\ obsB \in Observations
    /\ \E f \in Range(FieldOrder) : OnlyDiffers(f)
    /\ featA = NoFrame /\ featB = NoFrame

NextFeat == TrainDerive \/ ServeDerive

SpecFeat == InitFeat /\ [][NextFeat]_vars

---------------------------------------------------------------------------
(* The service process *)

\* import of backend/main.py
StartupMain ==
    /\ proc = "main" /\ pc = "import"
    /\ LET r == MainLoad(artifact)
       IN  model' = r.model /\ pc' = r.pc
    /\ boot' = artifact
    /\ UNCHANGED <<proc, artifact, last, run, obsA, obsB, featA, featB>>

\* import of backend/model_utils.py: neo_model_manager = ModelManager()
StartupManager ==
    /\ proc = "manager" /\ pc = "import"
    /\ LET r == _load_model(artifact)
       IN  model' = r.model /\ pc' = r.pc
    /\ boot' = artifact
    /\ UNCHANGED <<proc, artifact, last, run, obsA, obsB, featA, featB>>

\* POST /predict in a service that retries the load when it has no model
PredictReloading(body, o, h) ==
    /\ proc = "main" /\ pc = "serving" /\ last = NoCall
    /\ model' = IF model = NoModel THEN MainLoad(artifact).model ELSE model
    /\ last' = post_predict(model', body, o, h)
    /\ UNCHANGED <<proc, pc, artifact, boot, run, obsA, obsB, featA, featB>>

\* POST /predict
Predict(body, o, h) ==
    /\ proc = "main" /\ pc = "serving" /\ last = NoCall
    /\ last' = post_predict(model, body, o, h)
    /\ UNCHANGED <<proc, pc, artifact, model, boot, run, obsA, obsB, featA, featB>>

\* GET /health
Health ==
    /\ proc = "main" /\ pc = "serving" /\ last = NoCall
    /\ last' = health(model)
    /\ UNCHANGED <<proc, pc, artifact, model, boot, run, obsA, obsB, featA, featB>>

\* GET /
Root ==
    /\ proc = "main" /\ pc = "serving" /\ last = NoCall
    /\ last' = root
    /\ UNCHANGED <<proc, pc, artifact, model, boot, run, obsA, obsB, featA, featB>>

\* neo_model_manager.predict_hazard(input_features)
PredictHazard(input_features, o) ==
    /\ proc = "manager" /\ pc = "serving" /\ last = NoCall
    /\ last' = predict_hazard(model, input_features, o)
    /\ UNCHANGED <<proc, pc, artifact, model, boot, run, obsA, obsB, featA, featB>>

\* The response (or the exception) has gone back to the caller
Send ==
    /\ last # NoCall
    /\ last' = NoCall
    /\ UNCHANGED <<proc, pc, artifact, model, boot, run, obsA, obsB, featA, featB>>

\* scripts/train.py, "# SAVE MODEL", run by the operator beside the service
TrainerSaves ==
    /\ artifact.ver < MaxVersion
    /\ artifact' = [kind |-> "model", ver |-> artifact.ver + 1]
    /\ UNCHANGED <<proc, pc, model, boot, last, run, obsA, obsB, featA, featB>>

Init ==
    /\ proc \in {"main", "manager"}
    /\ pc = "import"
    /\ artifact \in {Absent, Corrupt, [kind |-> "model", ver |-> 1]}
    /\ model = NoModel
    /\ boot = Pending
    /\ last = NoCall
    /\ run = NoRun
    /\ obsA = NoFrame /\ obsB = NoFrame /\ featA = NoFrame /\ featB = NoFrame

Next ==
    \/ StartupMain
    \/ StartupManager
    \/ \E body \in Bodies, o \in Oracles : \E h \in FormatPct(o.p) : Predict(body, o, h)
    \/ Health
    \/ Root
    \/ \E input_features \in ManagerInputs, o \in Oracles : PredictHazard(input_features, o)
    \/ Send
    \/ TrainerSaves

Spec == Init /\ [][Next]_vars

---------------------------------------------------------------------------
(* Claims about the service *)

ScoringPaths == {"predict", "predict_hazard"}
Scored == last.path \in ScoringPaths
NoModelCall == ~last.derived /\ ~last.predictCalled /\ ~last.probaCalled

\* C1 as stated: every scoring call made with no model loaded, whatever its
\* input, ends in the model-unavailable error, returns no prediction and
\* never invokes the model.
C1_AlwaysUnavailable ==
    (Scored /\ model = NoModel) =>
        /\ last.outcome \in {"503", "model_unavailable"}
        /\ last.resp.kind = "none"
        /\ NoModelCall

\* C1 amended: with no model loaded no scoring call returns a prediction or
\* invokes the model; predict_hazard answers model-unavailable for every
\* input, POST /predict answers 503 for every well-formed body and the
\* validation error 422 for a malformed one.
C1_Unavailable ==
    (Scored /\ model = NoModel) =>
        /\ last.resp.kind = "none"
        /\ NoModelCall
        /\ last.path = "predict_hazard" => last.outcome = "model_unavailable"
        /\ last.path = "predict" =>
              last.outcome = IF AsteroidRequestValid(last.body) THEN "503" ELSE "422"

C1_Witness ==
    /\ last.path = "predict" /\ model = NoModel /\ boot = Corrupt
    /\ AsteroidRequestValid(last.body) /\ last.outcome = "503"

\* C2: for every raw observation that a scoring path hands to the model, the
\* frame the model receives has the columns, the column order and the values
\* of the row X that training builds from the same four raw values.
C2_Parity ==
    (Scored /\ IsRawObservation(last.body) /\ last.predictCalled) =>
        last.fed = TrainX(LabelledRow(last.body.row))

\* The same for POST /predict alone
MainParity ==
    (last.path = "predict" /\ last.predictCalled) =>
        last.fed = TrainX(LabelledRow(last.body.row))

\* C3: with a model loaded, a scoring request that lacks a required field or
\* carries a non-numeric value is rejected with a validation error before
\* features are derived and before predict / predict_proba is called.
C3_Rejected ==
    (Scored /\ model # NoModel /\ ~AsteroidRequestValid(last.body)) =>
        /\ last.outcome = "422"
        /\ NoModelCall

\* The probability a success response carries, as a normalized value
Content(resp) == IF resp.kind = "pct" THEN ReadBackPct(resp.value) ELSE resp.value

\* C6: in every successful scoring response the probability carried lies in
\* [0,1] and is_hazardous is true exactly when it is at least the threshold.
C6_Probability ==
    (Scored /\ last.resp.kind # "none") =>
        /\ 0 <= Content(last.resp) /\ Content(last.resp) <= ProbScale
        /\ last.resp.is_hazardous <=> (Content(last.resp) >= Threshold)

\* The range half of C6, which both paths keep
ProbabilityRange ==
    (Scored /\ last.resp.kind # "none") =>
        0 <= Content(last.resp) /\ Content(last.resp) <= ProbScale

\* C5: whatever the startup load finds (a loadable artifact, no file, a
\* corrupt file) the import completes without raising and before any request
\* is handled; from then on the model is set exactly when the artifact was
\* loadable, and /health reports model_loaded exactly then.
C5_Startup ==
    /\ pc \in {"import", "serving"}
    /\ pc = "import" => last = NoCall /\ model = NoModel
    /\ pc = "serving" =>
          /\ boot \in {Absent, Corrupt} \cup {[kind |-> "model", ver |-> v] : v \in 1..MaxVersion}
          /\ (model # NoModel) <=> (boot.kind = "model")
          /\ boot.kind = "model" => model = Model(boot.ver)
    /\ last.path = "health" => (last.resp.model_loaded <=> (boot.kind = "model"))

C5_Witness ==
    /\ pc = "serving" /\ boot = Corrupt /\ model = NoModel
    /\ last.path = "health" /\ ~last.resp.model_loaded

\* C9: the model reference is assigned by the startup load alone, which runs
\* once; no request and nothing the trainer writes replaces it afterwards.
C9_WriteOnce ==
    [][/\ model' # model => pc = "import" /\ pc' = "serving"
       /\ pc = "serving" => pc' = "serving" /\ model' = model]_vars

C9_Witness ==
    /\ pc = "serving" /\ proc = "main" /\ boot = Absent /\ model = NoModel
    /\ artifact.kind = "model" /\ last.path = "predict" /\ last.outcome = "503"

\* C10: with a model loaded, a scoring call in which predict or predict_proba
\* fails ends in an error that carries no is_hazardous / probability; a
\* response that carries them was computed by the model for that request.
C10_FailClosed ==
    (Scored /\ model # NoModel) =>
        /\ last.o.fails \in {"predict", "predict_proba"} =>
              last.resp.kind = "none" /\ last.outcome \in {"500", "raised"}
        /\ last.resp.kind # "none" =>
              /\ last.predictCalled /\ last.probaCalled /\ last.o.fails = "none"
              /\ last.resp.is_hazardous = Classify(last.o.p)
              /\ last.resp.kind = "float" => last.resp.value = last.o.p
              /\ last.resp.kind = "pct" => last.resp.value \in FormatPct(last.o.p)

C10_Witness ==
    /\ last.path = "predict" /\ model # NoModel
    /\ last.o.fails = "predict_proba" /\ last.probaCalled /\ last.outcome = "500"

---------------------------------------------------------------------------
(* Claims about training *)

\* C4: a run whose data set is empty or has a single class fails before the
\* save: no model comes out of the fit, nothing is dumped, and the artifact
\* on disk is the one the run found.
C4_DegenerateNotSaved ==
    (run.done /\ (run.raw_df.neg = 0 \/ run.raw_df.pos = 0)) =>
        /\ run.outcome \in {"no_data", "raised"}
        /\ ~run.fitted
        /\ artifact = run.before

C4_Witness ==
    /\ run.done /\ FullSchema(run.raw_df)
    /\ run.raw_df.neg = MaxNeg /\ run.raw_df.pos = 0 /\ run.o = "ok"
    /\ run.fitCalled /\ run.outcome = "raised"
    /\ run.before.kind = "model" /\ artifact = run.before

---------------------------------------------------------------------------
(* Claims about the derived features *)

Derived == featA # NoFrame

VelocityUp == OnlyDiffers("relative_velocity") /\ Less(obsA.row["relative_velocity"], obsB.row["relative_velocity"])
DistanceDown == OnlyDiffers("miss_distance") /\ Less(obsB.row["miss_distance"], obsA.row["miss_distance"])
Positive(x) == Less(Num(0), x)

\* C7 as stated: over non-negative inputs, a strict increase of
\* relative_velocity strictly increases kinetic_proxy and a strict decrease
\* of miss_distance strictly increases size_dist_ratio and velocity_dist_ratio.
C7_StrictlyMonotone ==
    Derived =>
        /\ VelocityUp => Less(featA.row["kinetic_proxy"], featB.row["kinetic_proxy"])
        /\ DistanceDown =>
              /\ Less(featA.row["size_dist_ratio"], featB.row["size_dist_ratio"])
              /\ Less(featA.row["velocity_dist_ratio"], featB.row["velocity_dist_ratio"])

\* C7 amended: the derived features never decrease under those changes; the
\* increase is strict when the factor that multiplies the changed field is
\* positive (est_diameter_min for kinetic_proxy and size_dist_ratio,
\* relative_velocity for velocity_dist_ratio), and when that factor is 0 the
\* feature stays 0.
C7_Monotone ==
    Derived =>
        /\ VelocityUp =>
              /\ Leq(featA.row["kinetic_proxy"], featB.row["kinetic_proxy"])
              /\ Positive(obsA.row["est_diameter_min"]) <=>
                    Less(featA.row["kinetic_proxy"], featB.row["kinetic_proxy"])
        /\ DistanceDown =>
              /\ Leq(featA.row["size_dist_ratio"], featB.row["size_dist_ratio"])
              /\ Leq(featA.row["velocity_dist_ratio"], featB.row["velocity_dist_ratio"])
              /\ Positive(obsA.row["est_diameter_min"]) <=>
                    Less(featA.row["size_dist_ratio"], featB.row["size_dist_ratio"])
              /\ Positive(obsA.row["relative_velocity"]) <=>
                    Less(featA.row["velocity_dist_ratio"], featB.row["velocity_dist_ratio"])

C7_Witness ==
    /\ Derived /\ DistanceDown
    /\ Positive(obsA.row["est_diameter_min"]) /\ Positive(obsA.row["relative_velocity"])
    /\ Less(featA.row["size_dist_ratio"], featB.row["size_dist_ratio"])
    /\ obsB.row["miss_distance"] = Num(0)

=============================================================================
